---- MODULE Spec2Model ----
(***************************************************************************)
(* Model of gumlet/certmagic-mongodb (src/mongoStore.go): a certmagic      *)
(* Storage backed by two MongoDB collections.                              *)
(*                                                                         *)
(*   certmagic-locks    lock documents {key, instance, expires_at}, with a *)
(*                      unique index on key and a TTL index on expires_at  *)
(*   certmagic-storage  records {key, value, ts}, with no index at all     *)
(*                                                                         *)
(* Callers are goroutines.  Every caller belongs to a process on some      *)
(* host, and the holder id of a MongoStorage is the host name, so callers  *)
(* on one host share a holder id.  Time is in seconds.                     *)
(***************************************************************************)
EXTENDS Integers, FiniteSets, Sequences

\* ------------------------------------------------------------------ bounds
NumCallers == 3
MaxTime == 120
TickSecs == 30
MaxDocs == 3
MaxStored == 2
MaxPrefixLen == 2

\* ------------------------------------------------------- program constants
LockTTL == 60
BackoffSecs == 2

Callers == 1..NumCallers
Keys == {"k1"}
RecordKeys == {"k1", "k2"}
Values == {"v1", "v2"}

\* The keys List is run on.
ListKeys == {"a", "ab", "a.", "a/b", "a*", "b"}

\* InstanceID: hostname of the process the caller runs in. Callers 1 and 3
\* run on one host, caller 2 (and 4, ...) on another.
Hostname(c) == IF c % 2 = 1 THEN "hostA" ELSE "hostB"

Min(a, b) == IF a < b THEN a ELSE b
Max(a, b) == IF a > b THEN a ELSE b

VARIABLES
  now,         \* wall clock (it stops at MaxTime)
  locks,       \* certmagic-locks: set of lock documents
  pc,          \* per caller: "idle", "sleep" (inside Lock, backing off), "cs"
  key,         \* per caller: key of its running Lock call or of the lock it
               \* was granted; "none" when idle
  expiration,  \* per caller: local `expiration` of the running Lock call
  sleepLeft,   \* per caller: what is left of the running time.Sleep
  ctxDone,     \* per caller: ctx.Done() of the running Lock call is closed
  lastErr,     \* per caller: local `err` of the running Lock call
  csAge,       \* per caller: time since its Lock returned nil, up to LockTTL
  last,        \* per caller: what its most recent call returned (history)
  storage,     \* certmagic-storage: set of record documents
  nextId,      \* the _id the next inserted record gets
  upsert,      \* per caller: the insert its running Store call is about to do
  touched,     \* per caller: a write to its key landed while its Store ran
  okVals,      \* per key: the values a Load may return now (history)
  sres,        \* what the most recent Store, Load or Delete returned (history)
  qres         \* what the most recent Exists, Stat or List returned (history)

lockVars == <<locks, pc, key, expiration, sleepLeft, ctxDone, lastErr,
              csAge, last>>
storeVars == <<storage, nextId, upsert, touched, okVals, sres, qres>>
vars == <<now, lockVars, storeVars>>

\* The lock document built by Lock; owner stands for the document's _id and
\* records the caller whose InsertOne created it.
LockDoc(c, k, exp) ==
  [key |-> k, instance |-> Hostname(c), expires_at |-> exp, owner |-> c]

DocsOf(k) == {d \in locks : d.key = k}

\* Filter dropped: every record matches.
AllRecords(k) == storage

\* Locking enforced: the records of a locked key are hidden.
HiddenWhileLocked(k) == {r \in storage : r.key = k /\ DocsOf(k) = {}}

\* Records of key k.
RecordsOf(k) == {r \in storage : r.key = k}

\* The document FindOne, UpdateOne and DeleteOne pick among those their
\* filter matches: the first one in natural order, the order of insertion.
FirstRecord(k) ==
  CHOOSE r \in RecordsOf(k) : \A q \in RecordsOf(k) : r.id <= q.id

NoUpsert == [key |-> "none", value |-> "none"]

\* A Record Store call op of caller c on key k returned r with value v.
StoreReturned(c, op, k, r, v) ==
  [caller |-> c, op |-> op, key |-> k, ret |-> r, value |-> v]

\* A call on key k returned r; err is the error the driver gave it, n the
\* number of documents its DeleteOne deleted.
Returned(k, r, err, n) == [key |-> k, ret |-> r, err |-> err, deleted |-> n]

NoCall == Returned("none", "none", "none", 0)

\* A keys slice with nothing in it.
NoKeys == [k \in ListKeys \cup RecordKeys |-> 0]

\* What Exists, Stat and List return: ret is the bool of Exists or the error
\* of Stat and List, size and modified the KeyInfo of Stat, keys the slice
\* of List as the number of times each key is in it.
NoQuery ==
  [caller |-> 0, op |-> "none", key |-> "none", prefix |-> <<>>,
   recursive |-> FALSE, ret |-> "none", size |-> 0, modified |-> 0,
   keys |-> NoKeys]

Init ==
  /\ now = 0
  /\ locks = {}
  /\ pc = [c \in Callers |-> "idle"]
  /\ key = [c \in Callers |-> "none"]
  /\ expiration = [c \in Callers |-> 0]
  /\ sleepLeft = [c \in Callers |-> 0]
  /\ ctxDone = [c \in Callers |-> FALSE]
  /\ lastErr = [c \in Callers |-> "none"]
  /\ csAge = [c \in Callers |-> 0]
  /\ last = [c \in Callers |-> NoCall]
  /\ storage = {}
  /\ nextId = 1
  /\ upsert = [c \in Callers |-> NoUpsert]
  /\ touched = [c \in Callers |-> FALSE]
  /\ okVals = [k \in RecordKeys |-> {"none"}]
  /\ sres = StoreReturned(0, "none", "none", "none", "none")
  /\ qres = NoQuery

\* ------------------------------------------------------------ Lock Manager

\* Unique index on locks.key, dropped: every insert is accepted.
NoUniqueIndex(c, k) == {"ok", "other"}

\* Unique index on key and instance together: a conflict only with a
\* document of another holder id.
UniquePerHolder(c, k) ==
  IF \E d \in DocsOf(k) : d.instance # Hostname(c) THEN {"dup", "other"}
  ELSE {"ok", "other"}

\* What m.Locks.InsertOne can return for a document with key k: nil, a
\* duplicate-key error (the unique index on key), or any other error of the
\* driver or the server (unreachable, timeout, ...).
InsertOutcomes(c, k) ==
  IF DocsOf(k) # {} THEN {"dup", "other"} ELSE {"ok", "other"}

\* Every error treated like a duplicate key.
RetryOnAnyError(err) == "sleep"

\* Lock's handling of a non-nil InsertOne error.
OnInsertError(err) == IF err = "dup" THEN "sleep" ELSE "return"

\* Lock returns r to its caller; its locals go away.
LockReturns(c, k, r, err) ==
  /\ pc' = [pc EXCEPT ![c] = IF r = "lock:ok" THEN "cs" ELSE "idle"]
  /\ key' = [key EXCEPT ![c] = IF r = "lock:ok" THEN k ELSE "none"]
  /\ expiration' = [expiration EXCEPT ![c] = 0]
  /\ sleepLeft' = [sleepLeft EXCEPT ![c] = 0]
  /\ ctxDone' = [ctxDone EXCEPT ![c] = FALSE]
  /\ lastErr' = [lastErr EXCEPT ![c] = "none"]
  /\ csAge' = [csAge EXCEPT ![c] = 0]
  /\ last' = [last EXCEPT ![c] = Returned(k, r, err, 0)]

\* The loop with the context checked after the insert instead of before it.
CheckCancelAfterInsert(c, k, exp, done) ==
  \E out \in InsertOutcomes(c, k) :
    IF out = "ok"
    THEN /\ locks' = locks \cup {LockDoc(c, k, exp)}
         /\ LockReturns(c, k, IF done THEN "lock:cancelled" ELSE "lock:ok",
                        "none")
    ELSE IF done
    THEN /\ LockReturns(c, k, "lock:cancelled", "none")
         /\ UNCHANGED locks
    ELSE IF OnInsertError(out) = "sleep"
    THEN /\ pc' = [pc EXCEPT ![c] = "sleep"]
         /\ key' = [key EXCEPT ![c] = k]
         /\ expiration' = [expiration EXCEPT ![c] = exp]
         /\ sleepLeft' = [sleepLeft EXCEPT ![c] = BackoffSecs]
         /\ ctxDone' = [ctxDone EXCEPT ![c] = done]
         /\ lastErr' = [lastErr EXCEPT ![c] = out]
         /\ last' = [last EXCEPT ![c] = NoCall]
         /\ UNCHANGED <<locks, csAge>>
    ELSE /\ LockReturns(c, k, "lock:error", out)
         /\ UNCHANGED locks

\* One iteration of Lock's for loop for caller c, whose call has key k,
\* expiration exp and a context in state done.
LockIteration(c, k, exp, done) ==
  IF done
  THEN \* case <-ctx.Done()
       /\ LockReturns(c, k, "lock:cancelled", "none")
       /\ UNCHANGED locks
  ELSE \* default
       \E out \in InsertOutcomes(c, k) :
         IF out = "ok"
         THEN /\ locks' = locks \cup {LockDoc(c, k, exp)}
              /\ LockReturns(c, k, "lock:ok", "none")
         ELSE IF OnInsertError(out) = "sleep"
         THEN \* time.Sleep(2 * time.Second); continue
              /\ pc' = [pc EXCEPT ![c] = "sleep"]
              /\ key' = [key EXCEPT ![c] = k]
              /\ expiration' = [expiration EXCEPT ![c] = exp]
              /\ sleepLeft' = [sleepLeft EXCEPT ![c] = BackoffSecs]
              /\ ctxDone' = [ctxDone EXCEPT ![c] = done]
              /\ lastErr' = [lastErr EXCEPT ![c] = out]
              /\ last' = [last EXCEPT ![c] = NoCall]
              /\ UNCHANGED <<locks, csAge>>
         ELSE /\ LockReturns(c, k, "lock:error", out)
              /\ UNCHANGED locks

\* Lock(ctx, k) is called: expiration is computed once, then the first
\* iteration of the loop runs. done: the context is already cancelled.
LockCall(c, k) ==
  /\ pc[c] = "idle"
  /\ now + LockTTL <= MaxTime
  /\ \E done \in BOOLEAN : LockIteration(c, k, now + LockTTL, done)
  /\ UNCHANGED <<now, storeVars>>

\* time.Sleep is over: the next iteration of the loop.
LockRetry(c) ==
  /\ pc[c] = "sleep"
  /\ sleepLeft[c] = 0
  /\ LockIteration(c, key[c], expiration[c], ctxDone[c])
  /\ UNCHANGED <<now, storeVars>>

\* The context of a running Lock call is cancelled or its deadline passes.
Cancel(c) ==
  /\ pc[c] = "sleep"
  /\ ~ctxDone[c]
  /\ ctxDone' = [ctxDone EXCEPT ![c] = TRUE]
  /\ UNCHANGED <<now, locks, pc, key, expiration, sleepLeft, lastErr, csAge,
                 last, storeVars>>

\* Filter on the key alone.
KeyOnlyFilter(c, k, d) == d.key = k

\* The lock document Lock builds, expires_at included, reused as the filter.
FilterWithExpiry(c, k, d) ==
  d.key = k /\ d.instance = Hostname(c) /\ d.expires_at = now + LockTTL

\* The filter of Unlock's DeleteOne: {key, instance: m.InstanceID}.
UnlockFilter(c, k, d) == d.key = k /\ d.instance = Hostname(c)

\* An error also when DeleteOne deleted nothing.
ErrorWhenNothingDeleted(err, n) ==
  IF err # "none" \/ n = 0 THEN "unlock:error" ELSE "unlock:ok"

\* What Unlock returns: an error exactly when DeleteOne returned one; the
\* DeleteResult (n documents deleted) is dropped.
UnlockResult(err, n) == IF err # "none" THEN "unlock:error" ELSE "unlock:ok"

\* Unlock(ctx, k) by caller c: a caller in its critical section releases the
\* key it locked, an idle caller any key. err: what DeleteOne returns.
Unlock(c, k) ==
  /\ \/ pc[c] = "cs" /\ k = key[c]
     \/ pc[c] = "idle"
  /\ \E err \in {"none", "other"} :
       LET match == {d \in locks : UnlockFilter(c, k, d)}
           gone == IF err = "none" THEN match ELSE {}
       IN /\ \/ /\ gone = {}
                /\ locks' = locks
             \/ \E d \in gone : locks' = locks \ {d}
          /\ last' = [last EXCEPT ![c] =
               Returned(k, UnlockResult(err, Cardinality(locks \ locks')),
                        err, Cardinality(locks \ locks'))]
  /\ pc' = [pc EXCEPT ![c] = "idle"]
  /\ key' = [key EXCEPT ![c] = "none"]
  /\ csAge' = [csAge EXCEPT ![c] = 0]
  /\ UNCHANGED <<now, expiration, sleepLeft, ctxDone, lastErr, storeVars>>

\* No TTL index: nothing ever expires.
NeverExpired(d) == FALSE

\* TTL index on a field the documents do not have a later time in: every
\* document is past it.
ExpiredAtOnce(d) == TRUE

\* TTL index on expires_at with expireAfterSeconds 0.
TTLExpired(d) == d.expires_at <= now

\* The store's TTL monitor deletes an expired lock document.
Expire(d) ==
  /\ d \in locks
  /\ TTLExpired(d)
  /\ locks' = locks \ {d}
  /\ UNCHANGED <<now, pc, key, expiration, sleepLeft, ctxDone, lastErr,
                 csAge, last, storeVars>>

\* Time passes: the clock advances up to MaxTime, running sleeps get
\* shorter, critical sections older.
Tick ==
  /\ now' = Min(MaxTime, now + TickSecs)
  /\ sleepLeft' = [c \in Callers |-> Max(0, sleepLeft[c] - TickSecs)]
  /\ csAge' = [c \in Callers |->
                 IF pc[c] = "cs" THEN Min(LockTTL, csAge[c] + TickSecs)
                 ELSE csAge[c]]
  /\ UNCHANGED <<locks, pc, key, expiration, ctxDone, lastErr, last,
                 storeVars>>

Next ==
  \/ \E c \in Callers, k \in Keys : LockCall(c, k)
  \/ \E c \in Callers : LockRetry(c)
  \/ \E c \in Callers : Cancel(c)
  \/ \E c \in Callers, k \in Keys : Unlock(c, k)
  \/ \E d \in locks : Expire(d)
  \/ Tick

Spec == Init /\ [][Next]_vars

\* Every caller keeps its critical section shorter than the lease: Unlock is
\* called only by the caller that Lock granted the key to, less than LockTTL
\* after Lock returned. A caller may also never call Unlock.
UnlockInTime(c) ==
  /\ pc[c] = "cs"
  /\ csAge[c] < LockTTL
  /\ Unlock(c, key[c])

TimelyNext ==
  \/ \E c \in Callers, k \in Keys : LockCall(c, k)
  \/ \E c \in Callers : LockRetry(c)
  \/ \E c \in Callers : Cancel(c)
  \/ \E c \in Callers : UnlockInTime(c)
  \/ \E d \in locks : Expire(d)
  \/ Tick

TimelySpec == Init /\ [][TimelyNext]_vars

\* The scheduling the liveness claims rest on: time passes, the TTL monitor
\* runs, and a goroutine whose sleep is over runs its next loop iteration.
\* Nothing makes a holder call Unlock: a holder may stop for good.
Fairness ==
  /\ WF_vars(Tick)
  /\ WF_vars(\E d \in locks : Expire(d))
  /\ \A c \in Callers : WF_vars(LockRetry(c))

LiveSpec == Init /\ [][Next]_vars /\ Fairness

\* ------------------------------------------------------------ Record Store
\* NewMongoStorage creates no index on certmagic-storage: the store checks
\* nothing when a record is inserted. An UpdateOne with upsert is atomic on
\* the document it updates; when its filter matches nothing it inserts a new
\* document, and nothing orders that insert with the upserts of other
\* clients that matched nothing either.

\* A write of value v ("none": a delete) to key k lands. The upsert of
\* caller c itself, when it ran, may take effect before the writes that
\* landed while it ran, so what those left readable stays readable.
Written(c, k, v) ==
  /\ okVals' = [okVals EXCEPT ![k] = IF touched[c] THEN @ \cup {v} ELSE {v}]
  /\ touched' = [x \in Callers |->
                   x # c /\ (touched[x] \/ upsert[x].key = k)]

\* Store(ctx, k, v) is called: UpdateOne({key: k}, {$set: ...}, upsert).
\* err: what UpdateOne returns.
StoreCall(c, k, v) ==
  /\ upsert[c] = NoUpsert
  /\ \E err \in {"none", "other"} :
       IF err # "none"
       THEN /\ sres' = StoreReturned(c, "store", k, "error", v)
            /\ UNCHANGED <<storage, nextId, upsert, touched, okVals>>
       ELSE IF RecordsOf(k) # {}
       THEN /\ storage' = (storage \ {FirstRecord(k)}) \cup
                              {[FirstRecord(k) EXCEPT !.value = v, !.ts = now]}
            /\ sres' = StoreReturned(c, "store", k, "ok", v)
            /\ Written(c, k, v)
            /\ UNCHANGED <<nextId, upsert>>
       ELSE /\ nextId + Cardinality({x \in Callers : upsert[x] # NoUpsert})
                 <= MaxDocs
            /\ upsert' = [upsert EXCEPT ![c] = [key |-> k, value |-> v]]
            /\ UNCHANGED <<storage, nextId, touched, okVals, sres>>
  /\ UNCHANGED <<now, lockVars, qres>>

\* The upsert of a Store call whose filter matched nothing inserts its
\* document, and Store returns nil.
StoreInsert(c) ==
  /\ upsert[c] # NoUpsert
  /\ storage' = storage \cup
       {[key |-> upsert[c].key, value |-> upsert[c].value, ts |-> now,
         id |-> nextId]}
  /\ nextId' = nextId + 1
  /\ upsert' = [upsert EXCEPT ![c] = NoUpsert]
  /\ sres' = StoreReturned(c, "store", upsert[c].key, "ok", upsert[c].value)
  /\ Written(c, upsert[c].key, upsert[c].value)
  /\ UNCHANGED <<now, lockVars, qres>>

\* Load(ctx, k): FindOne({key: k}). err: an error of FindOne other than
\* ErrNoDocuments.
Load(c, k) ==
  /\ upsert[c] = NoUpsert
  /\ \E err \in {"none", "other"} :
       IF err # "none"
       THEN sres' = StoreReturned(c, "load", k, "error", "none")
       ELSE IF RecordsOf(k) = {}
       THEN sres' = StoreReturned(c, "load", k, "notfound", "none")
       ELSE sres' = StoreReturned(c, "load", k, "ok", FirstRecord(k).value)
  /\ UNCHANGED <<now, lockVars, storage, nextId, upsert, touched, okVals, qres>>

\* Delete(ctx, k): DeleteOne({key: k}) deletes the first matching document,
\* if there is one. err: what DeleteOne returns.
Delete(c, k) ==
  /\ upsert[c] = NoUpsert
  /\ \E err \in {"none", "other"} :
       IF err # "none"
       THEN /\ sres' = StoreReturned(c, "delete", k, "error", "none")
            /\ UNCHANGED <<storage, touched, okVals>>
       ELSE /\ storage' = IF RecordsOf(k) = {} THEN storage
                           ELSE storage \ {FirstRecord(k)}
            /\ sres' = StoreReturned(c, "delete", k, "ok", "none")
            /\ Written(c, k, "none")
  /\ UNCHANGED <<now, lockVars, nextId, upsert, qres>>

StoreNext ==
  \/ \E c \in Callers, k \in RecordKeys, v \in Values : StoreCall(c, k, v)
  \/ \E c \in Callers : StoreInsert(c)
  \/ \E c \in Callers, k \in RecordKeys : Load(c, k)
  \/ \E c \in Callers, k \in RecordKeys : Delete(c, k)

StoreSpec == Init /\ [][StoreNext]_vars

\* -------------------------------------------------------------------- List
\* The characters of every key of the model, and the prefixes List is called
\* with.

Chars(k) ==
  CASE k = "a" -> <<"a">>
    [] k = "ab" -> <<"a", "b">>
    [] k = "a." -> <<"a", ".">>
    [] k = "a/b" -> <<"a", "/", "b">>
    [] k = "a*" -> <<"a", "*">>
    [] k = "b" -> <<"b">>
    [] k = "k1" -> <<"k", "1">>
    [] k = "k2" -> <<"k", "2">>

Alphabet == {"a", "k", ".", "/", "*"}
Prefixes == UNION {[1..n -> Alphabet] : n \in 0..MaxPrefixLen}

\* s starts with p, character by character.
StartsWith(s, p) == Len(p) <= Len(s) /\ SubSeq(s, 1, Len(p)) = p

\* "^" + prefix compiles: a quantifier needs an item to repeat, so the
\* prefix neither starts with * nor has two * in a row.
ValidRegex(p) ==
  \A i \in 1..Len(p) : p[i] = "*" => (i > 1 /\ p[i - 1] # "*")

\* The server's match of the regular expression p, anchored at the start of
\* s and open at its end: . is any character, x* any number of x, every
\* other character of the alphabet itself.
RECURSIVE MatchHere(_, _)
RECURSIVE MatchStar(_, _, _)
MatchHere(p, s) ==
  IF p = <<>> THEN TRUE
  ELSE IF Len(p) >= 2 /\ p[2] = "*"
  THEN MatchStar(p[1], SubSeq(p, 3, Len(p)), s)
  ELSE /\ s # <<>>
       /\ (p[1] = "." \/ p[1] = s[1])
       /\ MatchHere(Tail(p), Tail(s))

MatchStar(x, p, s) ==
  \/ MatchHere(p, s)
  \/ /\ s # <<>>
     /\ (x = "." \/ x = s[1])
     /\ MatchStar(x, p, Tail(s))

\* The documents the filter {key: {$regex: "^" + prefix}} matches.
ListMatches(prefix) == {r \in storage : MatchHere(prefix, Chars(r.key))}

\* The keys slice List returns, as the number of times each key is in it:
\* one entry per matching document, in the order of the cursor.
ListResult(prefix) ==
  [k \in ListKeys \cup RecordKeys |->
     Cardinality({r \in ListMatches(prefix) : r.key = k})]

\* List(ctx, prefix, recursive). err: what Find or the cursor returns; the
\* server rejects a regular expression that does not compile. recursive is
\* not read.
List(c, prefix, recursive) ==
  /\ upsert[c] = NoUpsert
  /\ \E err \in {"none", "other"} :
       IF err # "none" \/ ~ValidRegex(prefix)
       THEN qres' = [NoQuery EXCEPT !.caller = c, !.op = "list",
                       !.prefix = prefix, !.recursive = recursive,
                       !.ret = "error", !.keys = NoKeys]
       ELSE qres' = [NoQuery EXCEPT !.caller = c, !.op = "list",
                       !.prefix = prefix, !.recursive = recursive,
                       !.ret = "ok", !.keys = ListResult(prefix)]
  /\ UNCHANGED <<now, lockVars, storage, nextId, upsert, touched, okVals, sres>>

\* The record collections List is checked on: up to MaxStored records with
\* keys of ListKeys, two of them possibly of one key.
ListStorages ==
  UNION {{{[key |-> f[i], value |-> "v1", ts |-> 0, id |-> i] : i \in 1..n} :
           f \in [1..n -> ListKeys]} : n \in 0..MaxStored}

ListInit ==
  /\ now = 0
  /\ locks = {}
  /\ pc = [c \in Callers |-> "idle"]
  /\ key = [c \in Callers |-> "none"]
  /\ expiration = [c \in Callers |-> 0]
  /\ sleepLeft = [c \in Callers |-> 0]
  /\ ctxDone = [c \in Callers |-> FALSE]
  /\ lastErr = [c \in Callers |-> "none"]
  /\ csAge = [c \in Callers |-> 0]
  /\ last = [c \in Callers |-> NoCall]
  /\ storage \in ListStorages
  /\ nextId = Cardinality(storage) + 1
  /\ upsert = [c \in Callers |-> NoUpsert]
  /\ touched = [c \in Callers |-> FALSE]
  /\ okVals = [k \in RecordKeys |-> {"none"}]
  /\ sres = StoreReturned(0, "none", "none", "none", "none")
  /\ qres = NoQuery

ListNext ==
  \E c \in Callers, prefix \in Prefixes, recursive \in BOOLEAN :
    List(c, prefix, recursive)

ListSpec == ListInit /\ [][ListNext]_vars

\* ------------------------------------------------------------ Exists, Stat

\* What CountDocuments({key: k}) returns with error err: the number of
\* records of k, and 0 with an error.
CountDocuments(k, err) ==
  IF err = "none" THEN Cardinality(RecordsOf(k)) ELSE 0

\* The comparison taken with >= for >.
AtLeastZero(count) == IF count >= 0 THEN "true" ELSE "false"

\* The bool Exists returns for the count it got; the error is dropped.
ExistsResult(count) == IF count > 0 THEN "true" ELSE "false"

\* Exists(ctx, k). err: what CountDocuments returns.
Exists(c, k, err) ==
  /\ upsert[c] = NoUpsert
  /\ qres' = [NoQuery EXCEPT !.caller = c, !.op = "exists", !.key = k,
                !.ret = ExistsResult(CountDocuments(k, err))]
  /\ UNCHANGED <<now, lockVars, storage, nextId, upsert, touched, okVals, sres>>

\* Stat(ctx, k): FindOne({key: k}), then the KeyInfo of the document found:
\* Modified is its ts, Size the length of its value. err: an error of
\* FindOne other than ErrNoDocuments.
Stat(c, k) ==
  /\ upsert[c] = NoUpsert
  /\ \E err \in {"none", "other"} :
       IF err # "none"
       THEN qres' = [NoQuery EXCEPT !.caller = c, !.op = "stat", !.key = k,
                       !.ret = "error"]
       ELSE IF RecordsOf(k) = {}
       THEN qres' = [NoQuery EXCEPT !.caller = c, !.op = "stat", !.key = k,
                       !.ret = "notfound"]
       ELSE qres' = [NoQuery EXCEPT !.caller = c, !.op = "stat", !.key = k,
                       !.ret = "ok",
                       !.size = Len(FirstRecord(k).value),
                       !.modified = FirstRecord(k).ts]
  /\ UNCHANGED <<now, lockVars, storage, nextId, upsert, touched, okVals, sres>>

\* ------------------------------------------- Lock Manager and Record Store
\* Both on one key: caller 2 locks and unlocks it, caller 1 stores, loads,
\* deletes and queries it. The clock advances once.
Lockers == {2}
Clients == {1}
SomePrefixes == {<<>>, <<".">>}

TickOnce == now = 0 /\ Tick

BothNext ==
  \/ \E c \in Lockers, k \in Keys : LockCall(c, k)
  \/ \E c \in Lockers, k \in Keys : Unlock(c, k)
  \/ TickOnce
  \/ \E c \in Clients, k \in Keys, v \in Values : StoreCall(c, k, v)
  \/ \E c \in Clients : StoreInsert(c)
  \/ \E c \in Clients, k \in Keys : Load(c, k)
  \/ \E c \in Clients, k \in Keys : Delete(c, k)
  \/ \E c \in Clients, k \in Keys, err \in {"none", "other"} : Exists(c, k, err)
  \/ \E c \in Clients, k \in Keys : Stat(c, k)
  \/ \E c \in Clients, prefix \in SomePrefixes, recursive \in BOOLEAN :
       List(c, prefix, recursive)

BothSpec == Init /\ [][BothNext]_vars

\* ------------------------------------------------------------------ claims

Matching(c, k) == {d \in locks : d.key = k /\ d.instance = Hostname(c)}
LockAttempt(c) == LockRetry(c) \/ \E k \in Keys : LockCall(c, k)

\* C1: at most one lock document exists per key in every reachable state; a
\* Lock call returns success only in a step in which its own InsertOne adds
\* its document to a key that had none, so no Lock call on a key that has a
\* document returns success: it backs off, or returns an error.
C1_MutualExclusion ==
  /\ [](\A k \in Keys : Cardinality(DocsOf(k)) <= 1)
  /\ [][\A c \in Callers :
          /\ (pc'[c] = "cs" /\ pc[c] # "cs") =>
                /\ DocsOf(key'[c]) = {}
                /\ last'[c].ret = "lock:ok"
                /\ LockAttempt(c)
                /\ \E d \in locks' \ locks : d.owner = c /\ d.key = key'[c]
          /\ (LockRetry(c) /\ DocsOf(key[c]) # {}) =>
                (pc'[c] = "sleep" \/ last'[c].ret \in {"lock:cancelled", "lock:error"})
       ]_vars

\* C1 witness: one caller holds a key another caller is backing off on.
C1_Witness ==
  \E c, e \in Callers :
    /\ c # e /\ pc[c] = "cs" /\ pc[e] = "sleep" /\ key[e] = key[c]
    /\ \E d \in locks : d.owner = c /\ d.key = key[c]

\* C2: no two callers with distinct holder ids are both inside their
\* critical section of one key, each less than LockTTL after its own Lock
\* returned success.
C2_NoOverlap ==
  \A c, e \in Callers :
    ~ /\ c # e
      /\ Hostname(c) # Hostname(e)
      /\ pc[c] = "cs" /\ pc[e] = "cs" /\ key[c] = key[e]
      /\ csAge[c] < LockTTL /\ csAge[e] < LockTTL

\* C3: an Unlock(k) by caller c removes no lock document of k whose
\* instance differs from c's holder id.
C3_ReleaseScoping ==
  [][\A c \in Callers, k \in Keys :
       Unlock(c, k) =>
         \A d \in locks :
           (d.key = k /\ d.instance # Hostname(c)) => d \in locks']_vars

\* C3 witness: the Unlock of a caller whose Lock had been granted deleted
\* nothing, and another instance's lock document for that key is there.
C3_Witness ==
  \E c \in Callers :
    /\ last[c].ret = "unlock:ok" /\ last[c].deleted = 0
    /\ \E d \in locks : d.key = last[c].key /\ d.instance # Hostname(c)

\* C4: under fair expiry no key keeps a lock document forever, also when
\* the holder never calls Unlock, and a Lock call backing off on a key
\* without a document eventually returns success, unless it returns an
\* error (cancelled context, failing store) or another caller's insert gets
\* in first.
C4_LeaseExpiryLiveness ==
  /\ \A k \in Keys : (DocsOf(k) # {}) ~> (DocsOf(k) = {})
  /\ \A c \in Callers :
       (pc[c] = "sleep" /\ DocsOf(key[c]) = {}) ~>
          (pc[c] = "cs" \/ pc[c] = "idle" \/ DocsOf(key[c]) # {})

\* C4 witness: a Lock called and granted now, on a key whose earlier holder
\* acquired it at least LockTTL ago and never called Unlock.
C4_Witness ==
  \E c, e \in Callers :
    /\ c # e /\ pc[c] = "cs" /\ pc[e] = "cs" /\ key[c] = key[e]
    /\ csAge[e] = LockTTL
    /\ LockDoc(c, key[c], now + LockTTL) \in locks

\* C5: once the cancellation signal has fired, a Lock call still inside its
\* loop has less than a full back-off interval left before it returns.
C5_PromptCancellation ==
  \A c \in Callers :
    (pc[c] = "sleep" /\ ctxDone[c]) => sleepLeft[c] < BackoffSecs

C7_FailFast ==
  /\ [](\A c \in Callers :
          /\ pc[c] = "sleep" => lastErr[c] = "dup"
          /\ last[c].ret = "lock:error" =>
               (last[c].err = "other" /\ pc[c] = "idle"))
  /\ [][\A c \in Callers :
          (LockAttempt(c) /\ (lastErr'[c] = "other" \/ last'[c].err = "other"))
             => /\ last'[c].ret = "lock:error"
                /\ pc'[c] = "idle"
                /\ locks' = locks]_vars

\* C7 witness: a Lock call returned an error on a key that another caller
\* holds and a third one is backing off on.
C7_Witness ==
  \E c, e \in Callers :
    /\ last[c].ret = "lock:error" /\ last[c].err = "other"
    /\ pc[e] = "sleep" /\ key[e] = last[c].key
    /\ DocsOf(last[c].key) # {}

\* C8: an Unlock by the holder whose document is in the collection leaves
\* the key without a document unless DeleteOne fails, and the next insert
\* attempt of a waiting caller with a live context on a key without a
\* document succeeds (Lock returns success) unless InsertOne fails.
C8_HandOff ==
  [][/\ \A c \in Callers, k \in Keys :
          (Unlock(c, k) /\ pc[c] = "cs"
             /\ \E d \in locks : d.owner = c /\ d.key = k) =>
            (DocsOf(k)' = {} \/ last'[c].ret = "unlock:error")
     /\ \A c \in Callers :
          (LockRetry(c) /\ ~ctxDone[c] /\ DocsOf(key[c]) = {}) =>
            \/ /\ pc'[c] = "cs" /\ last'[c].ret = "lock:ok"
               /\ \E d \in locks' : d.owner = c /\ d.key = key[c]
            \/ last'[c].ret = "lock:error"]_vars

\* C8 witness: a caller that had to wait has just been granted the key that
\* another caller released with an Unlock that deleted its document.
C8_Witness ==
  \E c, e \in Callers :
    /\ c # e /\ pc[c] = "cs" /\ csAge[c] = 0
    /\ \E d \in locks :
         d.owner = c /\ d.key = key[c] /\ d.expires_at < now + LockTTL
    /\ last[e].ret = "unlock:ok" /\ last[e].deleted = 1
    /\ last[e].key = key[c]

\* No Store call on key k is running.
Quiet(k) == \A c \in Callers : upsert[c].key # k

\* C9: a Load(k) made while no Store on k is running returns the value the
\* writes to k left readable: the value of the last Store to k, and the
\* NotFound error, not a value, when k was never stored or the last write
\* was a Delete.
C9_RoundTrip ==
  [][\A c \in Callers, k \in RecordKeys :
       (Load(c, k) /\ Quiet(k) /\ sres'.ret # "error") =>
          /\ sres'.ret = "notfound" => "none" \in okVals[k]
          /\ sres'.ret = "ok" => sres'.value \in okVals[k]]_vars

\* C10: the record collection holds at most one record per key.
C10_OneRecordPerKey ==
  \A k \in RecordKeys : Cardinality(RecordsOf(k)) <= 1

\* Key k has no record.
Absent(k) == \A r \in storage : r.key # k

C12_ListPrefix ==
  [][\A c \in Callers, prefix \in Prefixes, recursive \in BOOLEAN :
       (List(c, prefix, recursive) /\ qres'.ret = "ok") =>
          qres'.keys =
            [k \in ListKeys \cup RecordKeys |->
               IF \E r \in storage :
                    r.key = k /\ StartsWith(Chars(k), prefix)
               THEN 1 ELSE 0]
    ]_vars

\* C13: Exists returns true only when the key has a record and the count
\* query answered, false when the key has no record and when the query
\* fails; it returns a bool and nothing else, and changes neither
\* collection.
C13_ExistsWeak ==
  [][\A c \in Callers, k \in RecordKeys :
       /\ \A err \in {"none", "other"} :
            Exists(c, k, err) =>
              /\ qres'.ret \in {"true", "false"}
              /\ qres'.ret = "true" => ~Absent(k)
              /\ Absent(k) => qres'.ret = "false"
              /\ storage' = storage /\ locks' = locks
       /\ Exists(c, k, "other") => qres'.ret = "false"
       /\ Exists(c, k, "none") => (qres'.ret = "true" <=> ~Absent(k))]_vars

\* C13 witness: Exists returned false on a key that has a record: the count
\* query failed and the error was dropped.
C13_Witness ==
  /\ qres.op = "exists" /\ qres.ret = "false"
  /\ ~Absent(qres.key)
  /\ \A c \in Callers : upsert[c] = NoUpsert

\* The first record of key k in the record collection, read from the
\* collection alone.
Oldest(k) ==
  CHOOSE r \in storage :
    r.key = k /\ \A q \in storage : q.key = k => r.id <= q.id

\* C18: a step that changes anything of the Lock Manager (Lock, Unlock)
\* leaves the record collection and every Record Store call as they are; a
\* step of Store, Load, Delete, Exists, List or Stat leaves the lock
\* collection and every Lock call as they are; and what each of them returns
\* and writes is decided by the record collection alone, whether or not the
\* key is locked.
C18_DisjointAdvisory ==
  [][/\ (locks' # locks \/ pc' # pc \/ key' # key \/ last' # last) =>
          UNCHANGED <<storage, nextId, upsert, sres, qres>>
     /\ (storage' # storage \/ upsert' # upsert \/ sres' # sres
           \/ qres' # qres) =>
          UNCHANGED <<locks, pc, key, last, lastErr, ctxDone>>
     /\ \A c \in Clients, k \in Keys :
          /\ \A v \in Values :
               ((upsert'[c] # upsert[c] \/ sres'.ret = "ok")
                  /\ StoreCall(c, k, v)) =>
                 IF Absent(k)
                 THEN upsert'[c] = [key |-> k, value |-> v]
                 ELSE storage' = (storage \ {Oldest(k)}) \cup
                        {[Oldest(k) EXCEPT !.value = v, !.ts = now]}
          /\ (sres'.op = "load" /\ sres'.ret # "error" /\ Load(c, k)) =>
               IF Absent(k) THEN sres'.ret = "notfound"
               ELSE sres'.ret = "ok" /\ sres'.value = Oldest(k).value
          /\ (sres'.op = "delete" /\ sres'.ret # "error" /\ Delete(c, k)) =>
               /\ sres'.ret = "ok"
               /\ storage' = IF Absent(k) THEN storage
                             ELSE storage \ {Oldest(k)}
          /\ (qres'.op = "exists" /\ Exists(c, k, "none")) =>
               (qres'.ret = "true" <=> ~Absent(k))
          /\ (qres'.op = "stat" /\ qres'.ret # "error" /\ Stat(c, k)) =>
               IF Absent(k) THEN qres'.ret = "notfound"
               ELSE qres'.ret = "ok" /\ qres'.modified = Oldest(k).ts
          /\ \A rec \in BOOLEAN :
               (qres'.op = "list" /\ qres'.ret = "ok"
                  /\ List(c, <<>>, rec)) =>
                 qres'.keys[k] = Cardinality({r \in storage : r.key = k})
    ]_vars

\* C18 witness: a Store by caller 1 wrote the record of k1 after caller 2,
\* on another host, had locked k1, and while caller 2 still holds it; a
\* Load then returned the value.
C18_Witness ==
  \E d \in locks, r \in storage :
    /\ d.key = "k1" /\ r.key = "k1"
    /\ d.owner = 2 /\ pc[2] = "cs"
    /\ d.expires_at = LockTTL
    /\ r.ts = now /\ now > 0
    /\ sres.op = "load" /\ sres.caller = 1 /\ sres.ret = "ok"
    /\ sres.value = r.value

\* C14: every lock document is inserted with expires_at equal to the time of
\* its insertion plus LockTTL.
C14_LeasePerAttempt ==
  [][\A d \in locks' \ locks : d.expires_at = now + LockTTL]_vars

\* C15: an Unlock(k) by a caller that does not hold k never removes the lock
\* document of another caller of the same process (same holder id) that is
\* inside its critical section of k.
C15_LocalSerialization ==
  [][\A c \in Callers, k \in Keys :
       (Unlock(c, k) /\ pc[c] # "cs") =>
         \A d \in locks :
           (d.key = k /\ d.owner # c /\ d.instance = Hostname(c)
              /\ pc[d.owner] = "cs" /\ key[d.owner] = k) => d \in locks'
    ]_vars

\* C16: a step of a Lock call that does not return success (it returns
\* Cancelled or another error, or goes to sleep) inserts nothing, so a call
\* that fails has inserted no document; a Lock call made or resumed with a
\* cancelled context returns Cancelled in that step, without an insert
\* attempt.
C16_NoDanglingLock ==
  [][\A c \in Callers :
       /\ (LockAttempt(c) /\ pc'[c] # "cs") => locks' = locks
       /\ (LockAttempt(c)
             /\ last'[c].ret \in {"lock:cancelled", "lock:error"}) =>
            /\ locks' = locks
            /\ pc'[c] = "idle"
       /\ (LockRetry(c) /\ ctxDone[c]) =>
            /\ last'[c] = Returned(key[c], "lock:cancelled", "none", 0)
            /\ locks' = locks
       /\ \A k \in Keys :
            (pc[c] = "idle" /\ LockIteration(c, k, now + LockTTL, TRUE)) =>
               /\ last'[c] = Returned(k, "lock:cancelled", "none", 0)
               /\ locks' = locks
    ]_vars

\* C16 witness: a Lock call returned Cancelled on a key without a document,
\* and the key still has none.
C16_Witness ==
  \E c \in Callers :
    /\ last[c].ret = "lock:cancelled" /\ pc[c] = "idle"
    /\ DocsOf(last[c].key) = {}
    /\ \A e \in Callers : pc[e] = "idle"
    /\ now > 0

\* C17: a key gets a lock document only in a step of Lock that returns
\* success to the caller whose document it is; it loses it only in a step of
\* an Unlock of that key by a caller whose holder id is the document's, or
\* by expiry at or after the document's expires_at; and no step does both,
\* so a document is never changed in place.
C17_LockStateMachine ==
  [][/\ \A d \in locks' \ locks :
          /\ LockAttempt(d.owner)
          /\ last'[d.owner] = Returned(d.key, "lock:ok", "none", 0)
          /\ pc'[d.owner] = "cs"
          /\ d.instance = Hostname(d.owner)
          /\ DocsOf(d.key) = {}
     /\ \A d \in locks \ locks' :
          \/ \E c \in Callers :
               /\ Unlock(c, d.key)
               /\ Hostname(c) = d.instance
               /\ last'[c].ret = "unlock:ok"
          \/ /\ Expire(d)
             /\ d.expires_at <= now
     /\ Cardinality(locks' \ locks) + Cardinality(locks \ locks') <= 1
    ]_vars

\* C17 witness: a key whose document was removed by expiry has the document
\* of a later Lock, and an Unlock has removed a document before.
C17_Witness ==
  \E d \in locks, c \in Callers :
    /\ d.expires_at = now + LockTTL /\ now >= LockTTL
    /\ pc[d.owner] = "cs"
    /\ c # d.owner
    /\ pc[c] = "cs" /\ key[c] = d.key /\ csAge[c] = LockTTL
    /\ \E e \in Callers : last[e].ret = "unlock:ok" /\ last[e].deleted = 1

\* C19: a Lock attempt on a key whose lock document has the caller's own
\* holder id does not return success: it gets the duplicate-key error and
\* backs off like any other contender, or returns an error (cancelled
\* context, failing store), and the document stays as it is.
C19_NotReentrant ==
  [][\A c \in Callers, k \in Keys :
       ((LockCall(c, k) \/ (LockRetry(c) /\ key[c] = k))
          /\ \E d \in locks : d.key = k /\ d.instance = Hostname(c)) =>
         /\ locks' = locks
         /\ pc'[c] # "cs"
         /\ \/ pc'[c] = "sleep" /\ lastErr'[c] = "dup"
            \/ last'[c].ret \in {"lock:cancelled", "lock:error"}
    ]_vars

\* C19 witness: a caller backs off after a duplicate-key error on a key that
\* a caller with the same holder id holds.
C19_Witness ==
  \E c, e \in Callers :
    /\ c # e /\ Hostname(c) = Hostname(e)
    /\ pc[e] = "cs" /\ pc[c] = "sleep" /\ key[c] = key[e]
    /\ lastErr[c] = "dup"
    /\ \E d \in locks : d.owner = e /\ d.key = key[e]

====
